---- MODULE Spec2Model ----
(***************************************************************************)
(* CardCopyer (ElmGates/cardcopy): the transfer-and-verify engine of       *)
(* src/main.py (CopyManager, DITCopyTool.start_copy / stop_copy /          *)
(* copy_process / copy_file_with_progress / copy_folder / verify_files /   *)
(* verify_folder) and the MD5Verifier of src/md5_verifier.py.              *)
(*                                                                         *)
(* Sizes are counted in blocks of 1 MiB: a file is a sequence of blocks,   *)
(* its size is the length of the sequence.  Times are in milliseconds.     *)
(* A source item is one directory; the file at position k of a directory   *)
(* has the k-th file name, the same in every directory.                    *)
(*                                                                         *)
(* Under Spec, SpecNames and SpecCopy one session runs with a destination  *)
(* chosen, and while it runs the user presses no button but Stop: the      *)
(* source list, the destination and the options stay as they were when     *)
(* Start was pressed.  Under SpecUI the user also clears the lists, edits  *)
(* the project name, ticks the date prefix box and starts a second         *)
(* session, at any moment.  SpecMD5, SpecFolder and SpecEta study the      *)
(* operations of MD5Verifier and the progress displays on their own.  The  *)
(* source tree is not changed by anyone during a run.                      *)
(***************************************************************************)
EXTENDS Integers, Sequences, FiniteSets, TLC

\* ------------------------------------------------------------------ bounds
MaxItems == 2      \* source items of a session
MaxFiles == 2      \* files of the whole source tree
MaxLen == 1        \* blocks of a file of the session's source tree
MaxByte == 0       \* block values are 0..MaxByte
MaxFaults == 1     \* I/O malfunctions the environment injects in one run
MaxPre == 1        \* files the destination holds before the session
MaxCopyLen == 3    \* blocks of the exhaustively enumerated inputs of one copy
MD5Mod == 65521    \* size of the modelled digest space

Byte == 0..MaxByte

RECURSIVE SeqsUpTo(_, _)
SeqsUpTo(S, n) ==
  IF n = 0 THEN {<<>>}
  ELSE LET shorter == SeqsUpTo(S, n - 1)
       IN shorter \cup {Append(s, x) : s \in {t \in shorter : Len(t) = n - 1}, x \in S}

Data == SeqsUpTo(Byte, MaxLen)

\* ------------------------------------------------------- pure functions
\* tiers that begin at their threshold instead of above it
ChunkSizeForInclusive(file_size) ==
  IF file_size >= 500 THEN 16
  ELSE IF file_size >= 100 THEN 8
  ELSE IF file_size >= 10 THEN 4
  ELSE 1

\* src/main.py:1506-1514, sizes in MiB
ChunkSizeFor(file_size) ==
  IF file_size > 500 THEN 16
  ELSE IF file_size > 100 THEN 8
  ELSE IF file_size > 10 THEN 4
  ELSE 1

\* hashlib.md5 fed block after block (src/md5_verifier.py:29-34): the digest
\* state is folded over the content in reading order; feeding a content is
\* feeding its first half and, from the state that leaves, its second half.
RECURSIVE Md5Update(_, _)
Md5Update(h, data) ==
  IF data = <<>> THEN h
  ELSE IF Len(data) = 1 THEN (h * (MaxByte + 3) + data[1] + 1) % MD5Mod
  ELSE LET m == Len(data) \div 2
           half == Md5Update(h, SubSeq(data, 1, m))
       IN IF half \in 0..(MD5Mod - 1)
          THEN Md5Update(half, SubSeq(data, m + 1, Len(data)))
          ELSE half

Md5Digest(data) == Md5Update(0, data)

\* A character of the project name entry: "a" and "1" stand for the
\* alphanumerics, "!" for every character the sanitizer drops.
IsAlnum(c) == c \in {"a", "1"}

\* c.isalnum() or c in "-_ " (src/main.py:1432)
IsSafeChar(c) == IsAlnum(c) \/ c \in {"-", "_", " "}

\* "".join(c for c in s if keep(c))
Filter(s, keep(_)) == SelectSeq(s, keep)

\* str.strip(): leading and trailing blanks removed
RECURSIVE LStrip(_)
LStrip(s) == IF s # <<>> /\ Head(s) = " " THEN LStrip(Tail(s)) ELSE s

RECURSIVE RStrip(_)
RStrip(s) ==
  IF s # <<>> /\ s[Len(s)] = " " THEN RStrip(SubSeq(s, 1, Len(s) - 1)) ELSE s

Strip(s) == RStrip(LStrip(s))

\* str.replace(" ", "_")
ReplaceSpaces(s) == [i \in 1..Len(s) |-> IF s[i] = " " THEN "_" ELSE s[i]]

\* a sanitizer that does not trim what the removal of characters leaves
SafeProjectNameUntrimmed(project_name) ==
  IF project_name # <<>>
  THEN ReplaceSpaces(Filter(project_name, IsSafeChar))
  ELSE <<>>

\* src/main.py:1430-1433
SafeProjectName(project_name) ==
  IF project_name # <<>>
  THEN ReplaceSpaces(Strip(Filter(project_name, IsSafeChar)))
  ELSE <<>>

\* ------------------------------------------------------------ the state
VARIABLES
  start_btn, stop_btn,        \* state of the two buttons: "normal" | "disabled"
  source_items,               \* DITCopyTool.source_items, with each directory's files
  only_media_var,             \* the four option widgets
  auto_folder_var,
  auto_date_prefix_var,
  project_name_var,
  destination_path,           \* DITCopyTool.destination_path: "dest" (chosen) or ""
  edits,                      \* changes the user may still make to the options and lists
  copy_manager,               \* the CopyManager fields the engine uses
  pc,                         \* the worker's position; "idle" when no thread runs
  frame,                      \* the worker's local variables
  dst,                        \* the destination tree: path -> content
  clock,                      \* the last value read from the system clock, ms
  horizon,                    \* the latest instant the clock reaches in the run
  faults,                     \* I/O failures injected so far
  sessions,                   \* sessions the user may still start
  leaving,                    \* workers that have re-enabled Start and not yet disabled Stop
  outcome,                    \* which of copy_complete / copy_stopped / except ran
  hist,                       \* history of the running session, for the properties
  md5_call,                   \* the last call of MD5Verifier.verify_file and its result
  folders,                    \* the two folders MD5Verifier's folder operations work on
  md5_op,                     \* the last folder operation of MD5Verifier and its result
  eta_call                    \* the last progress computation and what it showed

vars == <<start_btn, stop_btn, source_items, only_media_var, auto_folder_var,
          auto_date_prefix_var, project_name_var, destination_path, edits,
          copy_manager, pc, frame, dst, clock, horizon, faults, sessions, leaving, outcome, hist, md5_call,
          folders, md5_op, eta_call>>

\* what the UI thread owns and the worker only reads, and the run's time
\* horizon
ui == <<source_items, only_media_var, auto_folder_var, auto_date_prefix_var,
        project_name_var, destination_path, edits, horizon, md5_call, folders, md5_op,
        eta_call>>

\* ------------------------------------------------- folders and paths
\* copy_manager.date_folder: None, or a name made of a date stamp and a
\* sanitized project name (stamp -1: no stamp).
NoneFolder == [none |-> TRUE, stamp |-> -1, name |-> <<>>]
Folder(stamp, name) == [none |-> FALSE, stamp |-> stamp, name |-> name]

\* datetime.now().strftime("%Y%m%d_%H%M%S"): the clock at one-second resolution
DateStr(t) == t \div 1000

\* A directory is named by the root it lies under ("dest": the folder the
\* user chose; "": a relative path, resolved against the working directory)
\* and the folder joined to it; joining the empty name gives the root itself.
DestinationFolder(path) == [root |-> path, stamp |-> -1, name |-> <<>>]

\* the destination the user chose before the session
DestinationPath == DestinationFolder("dest")

\* os.path.join(self.destination_path, folder)
JoinDest(folder) == [root |-> destination_path, stamp |-> folder.stamp, name |-> folder.name]

\* os.path.join(final_dest, folder_name, file)
DstPath(final_dest, folder_name, k) == <<final_dest, folder_name, k>>

Exists(fs, p) == p \in DOMAIN fs
WriteFile(fs, p, data) == (p :> data) @@ fs

\* ------------------------------------------------------ the source tree
FileRec == [media : BOOLEAN, data : Data]
Dirs == SeqsUpTo(FileRec, MaxFiles)
ItemRec == [custom_name : 1..MaxItems, files : Dirs]

\* every file of every item, as os.walk meets them
AllFiles(items) ==
  {<<i, k>> : i \in 1..Len(items), k \in 1..MaxFiles} \cap
  {p \in (1..MaxItems) \X (1..MaxFiles) : p[1] <= Len(items) /\ p[2] <= Len(items[p[1]].files)}

FileAt(items, p) == items[p[1]].files[p[2]]

NumFiles(items) == Cardinality(AllFiles(items))

\* Folder names matter only up to equality: the first item is named 1 and
\* item i is named at most i.  FileName(k) has one extension, so the files at
\* position k are all media files or all other files.
SourceTrees ==
  {t \in UNION {[1..n -> ItemRec] : n \in 1..MaxItems} :
     /\ NumFiles(t) <= MaxFiles
     /\ \A i \in 1..Len(t) : t[i].custom_name <= i
     /\ \A p, q \in AllFiles(t) : p[2] = q[2] => FileAt(t, p).media = FileAt(t, q).media}

\* self.is_media_file(file_path): decided by the extension
IsMediaFile(f) == f.media

\* Files found in the destination before the session.  With the automatic
\* folder the session works below a folder of its own; what lies elsewhere
\* in the destination is never read or written and is left out.
PreExisting(items) ==
  LET paths == {DstPath(DestinationPath, items[p[1]].custom_name, p[2]) : p \in AllFiles(items)}
  IN {fs \in UNION {[S -> Data] : S \in SUBSET paths} : Cardinality(DOMAIN fs) <= MaxPre}

Instants == {0, 200, 1000}

NewManager ==
  [copying |-> FALSE, total_files |-> 0, copied_files |-> 0, verified_files |-> 0,
   total_size |-> 0, copied_size |-> 0, date_folder |-> NoneFolder, log_file |-> FALSE,
   total_md5_files |-> 0, md5_verified_files |-> 0, md5_calc_size |-> 0]

NoItem == [custom_name |-> 0, files |-> <<>>]

NewFrame ==
  [it |-> 0, source_item |-> NoItem, fi |-> 0, file_size |-> 0, copied |-> 0, last_update_time |-> 0,
   current_time |-> 0, original_copied_size |-> 0,
   final_dest |-> DestinationPath, v_final_dest |-> DestinationPath]

\* What the properties need to know of the session's past:
\*   stop_requested  stop_copy ran since start_copy
\*   cancel_seen     the worker read copying = False at a checkpoint
\*   empty_at_start  the destination held no file when the session started
\*   count_failed    a getsize of the counting walk raised
\*   started         how often copy_file_with_progress was entered, per source file
\*   copy_failed     the source files whose chunked and whole-file copy both raised
\*   hash_failed     the source files whose digest computation raised
\*   log_failed      init_log_file returned None
\*   root_failed     os.makedirs(final_dest) raised
\*   last_push       when update_progress was last called from the chunk loop
\*                   of the file being copied, -1 when it has not been
\*   entry_size      copied_size when copy_file_with_progress was last entered
NewHist ==
  [stop_requested |-> FALSE, cancel_seen |-> FALSE, empty_at_start |-> TRUE,
   count_failed |-> FALSE,
   started |-> [p \in (1..MaxItems) \X (1..MaxFiles) |-> 0],
   copy_failed |-> {}, hash_failed |-> {}, log_failed |-> FALSE, root_failed |-> FALSE,
   last_push |-> 0 - 1, entry_size |-> 0]

NoCall == [done |-> FALSE, source_path |-> <<>>, dest_path |-> <<>>,
           source_read |-> FALSE, dest_read |-> FALSE, match |-> FALSE, detail |-> ""]

\* a speed: a quotient with a positive denominator
Quotient(num, den) == [num |-> num, den |-> den]

NoEta ==
  [op |-> "none", total |-> 0, done |-> 0, start_time |-> 0, now |-> 0,
   elapsed_time |-> 0, speed |-> Quotient(0, 1), eta_seconds |-> 0, shown_time |-> 0]

MaxNameLen == 3    \* characters of a project name
ProjectNames == SeqsUpTo({"a", " ", "!"}, MaxNameLen)

\* the block values and the sizes of the files of one copy: every short file,
\* and one file on each side of every chunk tier
CopyByte == 0..1
TierSizes == {10, 11, 100, 101, 500, 501}
Pattern(n) == [i \in 1..n |-> (i \div 3) % 2]
CopyInputs == SeqsUpTo(CopyByte, MaxCopyLen) \cup {Pattern(n) : n \in TierSizes}

OneFile(data) == <<[custom_name |-> 1, files |-> <<[media |-> TRUE, data |-> data]>>]>>

\* a folder: its files other than checksums.md5 (name -> content), and
\* the manifest <folder>/checksums.md5 (absent, or a text)
NoFile == [exists |-> FALSE, text |-> <<>>]
TextFile(text) == [exists |-> TRUE, text |-> text]
EmptyFolder == [files |-> <<>>, checksum_file |-> NoFile]
NoFolders == [source_folder |-> EmptyFolder, dest_folder |-> EmptyFolder]

FolderPaths == {"source_folder", "dest_folder"}

\* an empty dict
NoChecksums == [rel_path \in {} |-> <<>>]

\* the last folder operation: its arguments, whether it raised, the dict it
\* returned; written: the files hashed into the manifest that
\* create_checksum_file saved in full and that is still in place
NoOp ==
  [op |-> "none", folder_path |-> "", create_checksums |-> FALSE, raised |-> FALSE,
   checksums |-> NoChecksums, results |-> NoChecksums,
   written |-> [f \in FolderPaths |-> [saved |-> FALSE, keys |-> {}]]]

\* The state after DITCopyTool.__init__ (src/main.py:203-240, 806-880, 1065-1072)
\* once the user has chosen the source items, the destination and the options.
InitSession(items, only_media, auto_folder, auto_date_prefix, project_name, before, until, starts) ==
  /\ start_btn = "normal"
  /\ stop_btn = "disabled"
  /\ source_items = items
  /\ only_media_var = only_media
  /\ auto_folder_var = auto_folder
  /\ auto_date_prefix_var = auto_date_prefix
  /\ project_name_var = project_name
  /\ destination_path = "dest"
  /\ copy_manager = NewManager
  /\ pc = "idle"
  /\ frame = NewFrame
  /\ dst = before
  /\ clock = 0
  /\ horizon = until
  /\ faults = 0
  /\ sessions = starts
  /\ leaving = 0
  /\ outcome = "none"
  /\ hist = NewHist
  /\ md5_call = NoCall
  /\ eta_call = NoEta

\* one session of the tool: MD5Verifier's folder operations are not in use
InitOf(items, only_media, auto_folder, auto_date_prefix, project_name, before, until) ==
  /\ InitSession(items, only_media, auto_folder, auto_date_prefix, project_name, before, until, 1)
  /\ edits = 0
  /\ folders = NoFolders
  /\ md5_op = NoOp

\* Every source tree and every content of the destination within the bounds,
\* with the naming options at their defaults (date prefix on, no project
\* name).  The media flag of a file is read only when the filter is on.
Init ==
  \E items \in SourceTrees, only_media \in BOOLEAN, auto_folder \in BOOLEAN :
    \E before \in (IF auto_folder THEN {<<>>} ELSE PreExisting(items)) :
      /\ only_media \/ \A p \in AllFiles(items) : FileAt(items, p).media
      /\ InitOf(items, only_media, auto_folder, TRUE, <<>>, before, 200)

\* One source file, every setting of the naming options, a clock that
\* reaches the next second.
InitNames ==
  \E data \in Data, auto_folder \in BOOLEAN, auto_date_prefix \in BOOLEAN,
     project_name \in ProjectNames :
    InitOf(OneFile(data), FALSE, auto_folder, auto_date_prefix, project_name, <<>>, 1000)

\* One source file of every content and size of CopyInputs, default options,
\* a clock that reaches the next second.
InitCopy ==
  \E data \in CopyInputs : InitOf(OneFile(data), FALSE, TRUE, TRUE, <<>>, <<>>, 1000)

MaxSessions == 2    \* sessions of a run in which the user starts several
MaxEdits == 1       \* changes the user makes to the options and lists in a run

\* what the user types as a project name while the tool runs: nothing, a
\* valid name, a name of invalid characters only
TypedNames == {<<>>, <<"a">>, <<"!">>}

\* One source file, every setting of the naming options, and a user who
\* starts up to MaxSessions sessions and changes up to MaxEdits things while
\* the tool runs.
InitUI ==
  \E data \in Data, auto_folder \in BOOLEAN, auto_date_prefix \in BOOLEAN,
     project_name \in TypedNames :
    /\ InitSession(OneFile(data), FALSE, auto_folder, auto_date_prefix, project_name,
                   <<>>, 200, MaxSessions)
    /\ edits = MaxEdits
    /\ folders = NoFolders
    /\ md5_op = NoOp

\* The files MD5Verifier.verify_file is called on: up to two files of every
\* short content.
MD5Files == {DstPath(DestinationPath, 1, k) : k \in 1..2}

InitMD5 ==
  \E files \in UNION {[S -> SeqsUpTo(CopyByte, MaxCopyLen)] : S \in SUBSET MD5Files} :
    InitOf(<<>>, FALSE, TRUE, TRUE, <<>>, files, 0)

\* --------------------------------------------------------- the UI thread

\* src/main.py:1362-1392
start_copy ==
  /\ start_btn = "normal"
  /\ sessions > 0
  /\ source_items # <<>>
  /\ destination_path # ""
  /\ \/ auto_date_prefix_var
     \/ /\ Strip(project_name_var) # <<>>
        /\ Strip(Filter(Strip(project_name_var), IsSafeChar)) # <<>>
  /\ start_btn' = "disabled"
  /\ stop_btn' = "normal"
  /\ pc' = "cp_begin"
  /\ sessions' = sessions - 1
  /\ outcome' = "none"
  /\ hist' = [NewHist EXCEPT !.empty_at_start = (DOMAIN dst = {})]
  /\ UNCHANGED <<ui, copy_manager, frame, dst, clock, faults, leaving>>

\* src/main.py:2168-2186: the "clear all" button, which is never disabled
clear_all ==
  /\ edits > 0
  /\ edits' = edits - 1
  /\ source_items' = <<>>
  /\ destination_path' = ""
  /\ copy_manager' = [copy_manager EXCEPT
       !.total_files = 0, !.copied_files = 0, !.verified_files = 0]
  /\ UNCHANGED <<start_btn, stop_btn, only_media_var, auto_folder_var, auto_date_prefix_var,
                 project_name_var, horizon, eta_call, md5_call, folders, md5_op, pc, frame, dst,
                 clock, faults, sessions, leaving, outcome, hist>>

\* src/main.py:829-835: the user types into the project name entry, which is
\* never disabled
set_project_name ==
  /\ edits > 0
  /\ edits' = edits - 1
  /\ \E project_name \in TypedNames \ {project_name_var} :
       project_name_var' = project_name
  /\ UNCHANGED <<start_btn, stop_btn, source_items, only_media_var, auto_folder_var,
                 auto_date_prefix_var, destination_path, horizon, eta_call, md5_call, folders, md5_op,
                 copy_manager, pc, frame, dst, clock, faults, sessions, leaving, outcome, hist>>

\* src/main.py:809-816: the user ticks or unticks the date prefix box, which
\* is never disabled
set_auto_date_prefix ==
  /\ edits > 0
  /\ edits' = edits - 1
  /\ auto_date_prefix_var' = ~auto_date_prefix_var
  /\ UNCHANGED <<start_btn, stop_btn, source_items, only_media_var, auto_folder_var,
                 project_name_var, destination_path, horizon, eta_call, md5_call, folders, md5_op,
                 copy_manager, pc, frame, dst, clock, faults, sessions, leaving, outcome, hist>>

\* src/main.py:1235-1273: the "rename" button, which is never disabled, gives
\* the selected source item another custom_name
rename_selected_folder ==
  /\ edits > 0
  /\ edits' = edits - 1
  /\ \E index \in 1..Len(source_items) :
       \E new_custom_name \in (1..MaxItems) \ {source_items[index].custom_name} :
         source_items' = [source_items EXCEPT ![index].custom_name = new_custom_name]
  /\ UNCHANGED <<start_btn, stop_btn, only_media_var, auto_folder_var, auto_date_prefix_var,
                 project_name_var, destination_path, horizon, eta_call, md5_call, folders, md5_op,
                 copy_manager, pc, frame, dst, clock, faults, sessions, leaving, outcome, hist>>

\* src/main.py:1394-1397
stop_copy ==
  /\ stop_btn = "normal"
  /\ copy_manager' = [copy_manager EXCEPT !.copying = FALSE]
  /\ hist' = [hist EXCEPT !.stop_requested = TRUE]
  /\ UNCHANGED <<start_btn, stop_btn, ui, pc, frame, dst, clock, faults, sessions, leaving, outcome>>

\* ------------------------------------------------------------ the worker
CanFail == faults < MaxFaults

RECURSIVE SumOf(_, _)
SumOf(f, S) ==
  IF S = {} THEN 0
  ELSE LET x == CHOOSE y \in S : TRUE IN f[x] + SumOf(f, S \ {x})

\* a value time.time() or datetime.now() may return now
Reading(t) == t \in Instants /\ t >= clock /\ t <= horizon

Size(data) == Len(data)

\* the loop variable source_item of the item loops
CurItem == frame.source_item
CurFile == CurItem.files[frame.fi]
\* dest_file of copy_folder: final_dest / folder_name / file
CurDest == DstPath(frame.final_dest, CurItem.custom_name, frame.fi)
\* dest_file of verify_folder
CurVerifyDest == DstPath(frame.v_final_dest, CurItem.custom_name, frame.fi)

SeenCancel == [hist EXCEPT !.cancel_seen = TRUE]

\* the locals of a finished call are dropped
ReturnToItems == [frame EXCEPT !.it = @ + 1, !.source_item = NoItem, !.fi = 0, !.file_size = 0, !.copied = 0,
                               !.last_update_time = 0, !.current_time = 0,
                               !.original_copied_size = 0]
NextFile == [frame EXCEPT !.fi = @ + 1, !.file_size = 0, !.copied = 0,
                          !.last_update_time = 0, !.current_time = 0,
                          !.original_copied_size = 0]

\* a worker that gives the session up when the log file cannot be opened
AfterInitLogAborts(log_path) == IF log_path THEN "cp_dest" ELSE "cp_except"

\* copy_process, src/main.py:1416-1421: with or without a log file the worker
\* goes on to the destination folder
AfterInitLog(log_path) == "cp_dest"

\* a start step that keeps what the session before has copied
ResetSessionKeepsCopied ==
  /\ pc = "cp_begin"
  /\ \E opened \in BOOLEAN :
       /\ opened \/ CanFail
       /\ faults' = IF opened THEN faults ELSE faults + 1
       /\ copy_manager' = [copy_manager EXCEPT
            !.copying = TRUE, !.total_files = 0,
            !.verified_files = 0, !.total_size = 0,
            !.date_folder = NoneFolder,
            !.log_file = IF opened THEN TRUE ELSE @]
       /\ hist' = [hist EXCEPT !.log_failed = ~opened]
       /\ pc' = AfterInitLog(opened)
  /\ UNCHANGED <<start_btn, stop_btn, ui, frame, dst, clock, sessions, leaving, outcome>>

\* copy_process, src/main.py:1403-1421, with CopyManager.init_log_file (313-337)
ResetSession ==
  /\ pc = "cp_begin"
  /\ \E opened \in BOOLEAN :
       /\ opened \/ CanFail
       /\ faults' = IF opened THEN faults ELSE faults + 1
       /\ copy_manager' = [copy_manager EXCEPT
            !.copying = TRUE, !.total_files = 0, !.copied_files = 0,
            !.verified_files = 0, !.total_size = 0, !.copied_size = 0,
            !.date_folder = NoneFolder,
            !.log_file = IF opened THEN TRUE ELSE @]
       /\ hist' = [hist EXCEPT !.log_failed = ~opened]
       /\ pc' = AfterInitLog(opened)
  /\ UNCHANGED <<start_btn, stop_btn, ui, frame, dst, clock, sessions, leaving, outcome>>

\* src/main.py:1426-1443
NewDateFolder(t) ==
  LET safe_project_name == SafeProjectName(Strip(project_name_var))
  IN IF auto_date_prefix_var
     THEN Folder(DateStr(t), safe_project_name)
     ELSE Folder(-1, safe_project_name)

\* a worker that goes on when the destination folder cannot be created
AfterMakedirsGoesOn(made) == "cp_count"

\* copy_process, src/main.py:1449, 1493: an exception of os.makedirs leaves
\* the try block
AfterMakedirs(made) == IF made THEN "cp_count" ELSE "cp_except"

\* copy_process, src/main.py:1423-1452
MakeDestination ==
  /\ pc = "cp_dest"
  /\ \E t \in Instants, made \in BOOLEAN :
       /\ IF auto_folder_var /\ auto_date_prefix_var THEN Reading(t) ELSE t = clock
       /\ made \/ CanFail
       /\ clock' = t
       /\ faults' = IF made THEN faults ELSE faults + 1
       /\ LET folder == IF auto_folder_var THEN NewDateFolder(t) ELSE copy_manager.date_folder
              final_dest == IF auto_folder_var THEN JoinDest(folder)
                            ELSE DestinationFolder(destination_path)
          IN /\ copy_manager' = [copy_manager EXCEPT !.date_folder = folder]
             /\ frame' = [frame EXCEPT !.final_dest = final_dest]
       /\ hist' = [hist EXCEPT !.root_failed = ~made]
       /\ pc' = AfterMakedirs(made)
  /\ UNCHANGED <<start_btn, stop_btn, ui, dst, sessions, leaving, outcome>>

\* the files the only-media filter lets through (src/main.py:1460, 1622)
Selected(items) ==
  {p \in AllFiles(items) : ~(only_media_var /\ ~IsMediaFile(FileAt(items, p)))}

\* copy_process, src/main.py:1454-1472: the counting walk
CountFiles ==
  /\ pc = "cp_count"
  /\ \E unreadable \in SUBSET Selected(source_items) :
       /\ faults + Cardinality(unreadable) <= MaxFaults
       /\ faults' = faults + Cardinality(unreadable)
       /\ LET sizes == [p \in Selected(source_items) |->
                          IF p \in unreadable THEN 0 ELSE Size(FileAt(source_items, p).data)]
          IN copy_manager' = [copy_manager EXCEPT
               !.total_files = Cardinality(Selected(source_items)),
               !.total_size = SumOf(sizes, Selected(source_items))]
       /\ hist' = [hist EXCEPT !.count_failed = (unreadable # {})]
  /\ frame' = [frame EXCEPT !.it = 1]
  /\ pc' = "cp_item"
  /\ UNCHANGED <<start_btn, stop_btn, ui, dst, clock, sessions, leaving, outcome>>

\* copy_process, src/main.py:1475-1481, and copy_folder up to its makedirs (1572-1584)
CopyItemCheckpoint ==
  /\ pc = "cp_item"
  /\ \/ /\ frame.it > Len(source_items)
        /\ pc' = "cp_gate"
        /\ UNCHANGED <<frame, hist, faults>>
     \/ /\ frame.it <= Len(source_items)
        /\ ~copy_manager.copying
        /\ hist' = SeenCancel
        /\ pc' = "cp_gate"
        /\ UNCHANGED <<frame, faults>>
     \/ /\ frame.it <= Len(source_items)
        /\ copy_manager.copying
        /\ frame' = [frame EXCEPT !.source_item = source_items[frame.it]]
        /\ \E made \in BOOLEAN :
             /\ made \/ CanFail
             /\ faults' = IF made THEN faults ELSE faults + 1
             /\ pc' = IF made THEN "cf_dir" ELSE "cp_except"
        /\ UNCHANGED hist
  /\ UNCHANGED <<start_btn, stop_btn, ui, copy_manager, dst, clock, sessions, leaving, outcome>>

\* copy_folder, src/main.py:1586-1613: the checkpoint of the directory loop
CopyDirCheckpoint ==
  /\ pc = "cf_dir"
  /\ IF copy_manager.copying
     THEN /\ frame' = [frame EXCEPT !.fi = 1]
          /\ pc' = "cf_file"
          /\ UNCHANGED hist
     ELSE /\ frame' = ReturnToItems
          /\ pc' = "cp_item"
          /\ hist' = SeenCancel
  /\ UNCHANGED <<start_btn, stop_btn, ui, copy_manager, dst, clock, faults, sessions, leaving, outcome>>

\* a file loop that never looks at the flag
FileLoopNeverCancelled == FALSE

\* copy_folder, src/main.py:1616-1617: the test of the file loop's checkpoint
FileLoopCancelled == ~copy_manager.copying

\* copy_folder, src/main.py:1615-1633, and the entry of
\* copy_file_with_progress (1502-1523)
CopyFileCheckpoint ==
  /\ pc = "cf_file"
  /\ \/ /\ frame.fi > Len(CurItem.files)
        /\ frame' = ReturnToItems
        /\ pc' = "cp_item"
        /\ UNCHANGED <<hist, faults, clock>>
     \/ /\ frame.fi <= Len(CurItem.files)
        /\ FileLoopCancelled
        /\ hist' = SeenCancel
        /\ frame' = ReturnToItems
        /\ pc' = "cp_item"
        /\ UNCHANGED <<faults, clock>>
     \/ /\ frame.fi <= Len(CurItem.files)
        /\ ~FileLoopCancelled
        /\ only_media_var /\ ~IsMediaFile(CurFile)
        /\ frame' = NextFile
        /\ pc' = "cf_file"
        /\ UNCHANGED <<hist, faults, clock>>
     \/ /\ frame.fi <= Len(CurItem.files)
        /\ ~FileLoopCancelled
        /\ ~(only_media_var /\ ~IsMediaFile(CurFile))
        /\ \/ /\ CanFail                       \* os.path.getsize raises
              /\ faults' = faults + 1
              /\ frame' = NextFile
              /\ pc' = "cf_file"
              /\ UNCHANGED <<hist, clock>>
           \/ /\ \E t \in Instants :
                   /\ Reading(t)
                   /\ clock' = t
                   /\ frame' = [frame EXCEPT !.file_size = Size(CurFile.data),
                                             !.copied = 0, !.last_update_time = t]
              /\ pc' = "cw_open"
              /\ hist' = [hist EXCEPT !.started[<<frame.it, frame.fi>>] = @ + 1,
                                       !.last_push = 0 - 1,
                                       !.entry_size = copy_manager.copied_size]
              /\ UNCHANGED faults
  /\ UNCHANGED <<start_btn, stop_btn, ui, copy_manager, dst, sessions, leaving, outcome>>

\* copy_file_with_progress, src/main.py:1527-1528: open(source, 'rb'), open(dest, 'wb')
OpenFiles ==
  /\ pc = "cw_open"
  /\ \/ /\ dst' = WriteFile(dst, CurDest, <<>>)
        /\ pc' = "cw_loop"
        /\ UNCHANGED faults
     \/ /\ CanFail
        /\ faults' = faults + 1
        /\ pc' = "cw_fallback"
        /\ UNCHANGED dst
  /\ UNCHANGED <<start_btn, stop_btn, ui, copy_manager, frame, clock, sessions, leaving, outcome, hist>>

\* copy_file_with_progress, src/main.py:1529-1531: the checkpoint of the chunk loop
ChunkCheckpoint ==
  /\ pc = "cw_loop"
  /\ IF copy_manager.copying
     THEN pc' = "cw_chunk" /\ UNCHANGED hist
     ELSE pc' = "cf_post" /\ hist' = SeenCancel
  /\ UNCHANGED <<start_btn, stop_btn, ui, copy_manager, frame, dst, clock, faults, sessions, leaving, outcome>>

Min(a, b) == IF a < b THEN a ELSE b
Abs(a) == IF a < 0 THEN -a ELSE a

\* a read that stops one block short of the end of the file
ReadChunkShort(data, copied, chunk_size) ==
  SubSeq(data, copied + 1, Min(copied + chunk_size, Len(data) - 1))

\* src.read(chunk_size) at offset `copied`
ReadChunk(data, copied, chunk_size) ==
  SubSeq(data, copied + 1, Min(copied + chunk_size, Len(data)))

\* src/main.py:1553-1555
TempCopiedSize(copied) ==
  Min(copy_manager.copied_size + copied, copy_manager.total_size)

\* a loop that updates the progress at every chunk
PushDueAlways(current_time, last_update_time) == TRUE

\* src/main.py:1519, 1544: update_interval = 0.2 s
PushDue(current_time, last_update_time) == current_time - last_update_time >= 200

\* copy_file_with_progress, src/main.py:1533-1565: one turn of the chunk loop
CopyChunk ==
  /\ pc = "cw_chunk"
  /\ LET chunk == ReadChunk(CurFile.data, frame.copied, ChunkSizeFor(frame.file_size))
         copied == frame.copied + Len(chunk)
     IN \/ /\ CanFail                      \* src.read or dst.write raises
           /\ faults' = faults + 1
           /\ pc' = "cw_fallback"
           /\ UNCHANGED <<copy_manager, frame, dst, clock>>
        \/ /\ chunk = <<>>
           /\ pc' = "cf_post"
           /\ UNCHANGED <<copy_manager, frame, dst, clock, faults>>
        \/ /\ chunk # <<>>
           /\ dst' = WriteFile(dst, CurDest, dst[CurDest] \o chunk)
           /\ \E t \in Instants :
                /\ Reading(t)
                /\ clock' = t
                /\ IF PushDue(t, frame.last_update_time)
                   THEN IF /\ copy_manager.total_size > 0
                           /\ 100 * Abs(TempCopiedSize(copied) - copy_manager.copied_size)
                                > copy_manager.total_size
                        THEN /\ copy_manager' = [copy_manager EXCEPT
                                  !.copied_size = TempCopiedSize(copied)]
                             /\ frame' = [frame EXCEPT !.copied = copied, !.current_time = t,
                                  !.original_copied_size = copy_manager.copied_size]
                             /\ pc' = "cw_push"
                        ELSE /\ frame' = [frame EXCEPT !.copied = copied, !.last_update_time = t]
                             /\ pc' = "cw_loop"
                             /\ UNCHANGED copy_manager
                   ELSE /\ frame' = [frame EXCEPT !.copied = copied]
                        /\ pc' = "cw_loop"
                        /\ UNCHANGED copy_manager
           /\ UNCHANGED faults
  /\ UNCHANGED <<start_btn, stop_btn, ui, sessions, leaving, outcome, hist>>

\* copy_file_with_progress, src/main.py:1561-1567: update_progress, then the
\* committed copied_size is put back; when update_progress raises (it calls
\* the widgets with no handler of its own, 1839-1895) the assignment of line
\* 1562 is not reached and the handler of the chunked copy takes over
ProgressPush ==
  /\ pc = "cw_push"
  /\ \/ /\ copy_manager' = [copy_manager EXCEPT !.copied_size = frame.original_copied_size]
        /\ frame' = [frame EXCEPT !.last_update_time = frame.current_time,
                                  !.current_time = 0, !.original_copied_size = 0]
        /\ hist' = [hist EXCEPT !.last_push = frame.current_time]
        /\ pc' = "cw_loop"
        /\ UNCHANGED faults
     \/ /\ CanFail
        /\ faults' = faults + 1
        /\ pc' = "cw_fallback"
        /\ UNCHANGED <<copy_manager, frame, hist>>
  /\ UNCHANGED <<start_btn, stop_btn, ui, dst, clock, sessions, leaving, outcome>>

\* a whole-file copy whose exception leaves copy_folder and ends the session
FallbackCopyAborts ==
  /\ pc = "cw_fallback"
  /\ \/ /\ dst' = WriteFile(dst, CurDest, CurFile.data)
        /\ pc' = "cf_post"
        /\ UNCHANGED <<faults, frame, hist>>
     \/ /\ dst' \in {dst, WriteFile(dst, CurDest, <<>>)}
        /\ UNCHANGED <<faults, frame>>
        /\ pc' = "cp_except"
        /\ hist' = [hist EXCEPT !.copy_failed = @ \cup {<<frame.it, frame.fi>>}]
  /\ UNCHANGED <<start_btn, stop_btn, ui, copy_manager, clock, sessions, leaving, outcome>>

\* copy_file_with_progress, src/main.py:1567-1570: shutil.copy2; when it raises
\* too, the exception reaches copy_folder's handler (1672-1673).  The
\* malfunction that broke the chunked copy may still be there: the second
\* failure is not counted as a new one.
FallbackCopy ==
  /\ pc = "cw_fallback"
  /\ \/ /\ dst' = WriteFile(dst, CurDest, CurFile.data)
        /\ pc' = "cf_post"
        /\ UNCHANGED <<faults, frame, hist>>
     \/ /\ dst' \in {dst, WriteFile(dst, CurDest, <<>>)}
        /\ UNCHANGED faults
        /\ frame' = NextFile
        /\ pc' = "cf_file"
        /\ hist' = [hist EXCEPT !.copy_failed = @ \cup {<<frame.it, frame.fi>>}]
  /\ UNCHANGED <<start_btn, stop_btn, ui, copy_manager, clock, sessions, leaving, outcome>>

\* a post-copy step that does not count a file while the cancel flag is set
FileCopiedUnlessCancelled ==
  /\ pc = "cf_post"
  /\ \/ /\ copy_manager' =
             IF copy_manager.copying
             THEN [copy_manager EXCEPT
                     !.copied_files = @ + 1, !.copied_size = @ + frame.file_size]
             ELSE copy_manager
        /\ UNCHANGED faults
     \/ /\ Exists(dst, CurDest)
        /\ CanFail
        /\ faults' = faults + 1
        /\ UNCHANGED copy_manager
  /\ frame' = NextFile
  /\ pc' = "cf_file"
  /\ UNCHANGED <<start_btn, stop_btn, ui, dst, clock, sessions, leaving, outcome, hist>>

\* a post-copy step that counts a file only when the two sizes agree
FileCopiedIfSameSize ==
  /\ pc = "cf_post"
  /\ \/ /\ copy_manager' =
             IF Exists(dst, CurDest) /\ Size(dst[CurDest]) = Size(CurFile.data)
             THEN [copy_manager EXCEPT
                     !.copied_files = @ + 1, !.copied_size = @ + frame.file_size]
             ELSE copy_manager
        /\ UNCHANGED faults
     \/ /\ Exists(dst, CurDest)
        /\ CanFail
        /\ faults' = faults + 1
        /\ UNCHANGED copy_manager
  /\ frame' = NextFile
  /\ pc' = "cf_file"
  /\ UNCHANGED <<start_btn, stop_btn, ui, dst, clock, sessions, leaving, outcome, hist>>

\* copy_folder, src/main.py:1638-1673
FileCopied ==
  /\ pc = "cf_post"
  /\ \/ /\ copy_manager' = [copy_manager EXCEPT
             !.copied_files = @ + 1, !.copied_size = @ + frame.file_size]
        /\ UNCHANGED faults
     \/ /\ Exists(dst, CurDest)            \* os.path.getsize (1642-1643) raises
        /\ CanFail
        /\ faults' = faults + 1
        /\ UNCHANGED copy_manager
  /\ frame' = NextFile
  /\ pc' = "cf_file"
  /\ UNCHANGED <<start_btn, stop_btn, ui, dst, clock, sessions, leaving, outcome, hist>>

\* a gate that looks at the counter only, not at the flag
VerifyGateAnyway ==
  /\ pc = "cp_gate"
  /\ IF copy_manager.copied_files > 0
     THEN pc' = "vf_begin"
     ELSE pc' = "cp_finish"
  /\ hist' = IF copy_manager.copying THEN hist ELSE SeenCancel
  /\ UNCHANGED <<start_btn, stop_btn, ui, copy_manager, frame, dst, clock, faults, sessions, leaving, outcome>>

\* copy_process, src/main.py:1483-1485
VerifyGate ==
  /\ pc = "cp_gate"
  /\ IF copy_manager.copying /\ copy_manager.copied_files > 0
     THEN pc' = "vf_begin"
     ELSE pc' = "cp_finish"
  /\ hist' = IF copy_manager.copying THEN hist ELSE SeenCancel
  /\ UNCHANGED <<start_btn, stop_btn, ui, copy_manager, frame, dst, clock, faults, sessions, leaving, outcome>>

\* a verify root rebuilt from the clock instead of the stored folder
VerifyFinalDestNow ==
  IF auto_folder_var THEN JoinDest(NewDateFolder(clock))
  ELSE DestinationFolder(destination_path)

\* verify_files, src/main.py:1693-1702
VerifyFinalDest ==
  IF auto_folder_var /\ ~copy_manager.date_folder.none
  THEN JoinDest(copy_manager.date_folder)
  ELSE DestinationFolder(destination_path)

\* verify_files, src/main.py:1675-1702
VerifyBegin ==
  /\ pc = "vf_begin"
  /\ \E t \in Instants :
       /\ Reading(t)
       /\ clock' = t
  /\ copy_manager' = [copy_manager EXCEPT
       !.md5_verified_files = 0, !.md5_calc_size = 0,
       !.total_md5_files = NumFiles(source_items)]
  /\ frame' = [frame EXCEPT
       !.it = 1, !.fi = 0,
       !.v_final_dest = VerifyFinalDest]
  /\ pc' = "vf_item"
  /\ UNCHANGED <<start_btn, stop_btn, ui, dst, faults, sessions, leaving, outcome, hist>>

\* verify_files, src/main.py:1706-1724
VerifyItemCheckpoint ==
  /\ pc = "vf_item"
  /\ IF frame.it > Len(source_items)
     THEN pc' = "vf_summary" /\ UNCHANGED <<frame, hist>>
     ELSE IF copy_manager.copying
          THEN /\ frame' = [frame EXCEPT !.source_item = source_items[frame.it]]
               /\ pc' = "vd_dir"
               /\ UNCHANGED hist
          ELSE pc' = "vf_summary" /\ hist' = SeenCancel /\ UNCHANGED frame
  /\ UNCHANGED <<start_btn, stop_btn, ui, copy_manager, dst, clock, faults, sessions, leaving, outcome>>

\* verify_folder, src/main.py:1750-1758
VerifyDirCheckpoint ==
  /\ pc = "vd_dir"
  /\ IF copy_manager.copying
     THEN /\ frame' = [frame EXCEPT !.fi = 1]
          /\ pc' = "vd_file"
          /\ UNCHANGED hist
     ELSE /\ frame' = ReturnToItems
          /\ pc' = "vf_item"
          /\ hist' = SeenCancel
  /\ UNCHANGED <<start_btn, stop_btn, ui, copy_manager, dst, clock, faults, sessions, leaving, outcome>>

\* verify_folder, src/main.py:1760-1781
VerifyFileCheckpoint ==
  /\ pc = "vd_file"
  /\ \/ /\ frame.fi > Len(CurItem.files)
        /\ frame' = ReturnToItems
        /\ pc' = "vf_item"
        /\ UNCHANGED <<hist, faults, copy_manager>>
     \/ /\ frame.fi <= Len(CurItem.files)
        /\ ~copy_manager.copying
        /\ hist' = SeenCancel
        /\ frame' = ReturnToItems
        /\ pc' = "vf_item"
        /\ UNCHANGED <<faults, copy_manager>>
     \/ /\ frame.fi <= Len(CurItem.files)
        /\ copy_manager.copying
        /\ \/ /\ copy_manager' = [copy_manager EXCEPT
                   !.md5_verified_files = @ + 1,
                   !.md5_calc_size = @ + Size(CurFile.data)]
              /\ UNCHANGED faults
           \/ /\ CanFail                   \* os.path.getsize raises: file_size = 0
              /\ faults' = faults + 1
              /\ copy_manager' = [copy_manager EXCEPT !.md5_verified_files = @ + 1]
        /\ pc' = "vd_hash"
        /\ UNCHANGED <<hist, frame>>
  /\ UNCHANGED <<start_btn, stop_btn, ui, dst, clock, sessions, leaving, outcome>>

\* MD5Verifier.calculate_md5, src/md5_verifier.py:18-36: the digest of the
\* content, or the exception of line 36 when the file cannot be opened or read
Md5Error == -1
calculate_md5(fs, file_path, readable) ==
  IF Exists(fs, file_path) /\ readable THEN Md5Digest(fs[file_path]) ELSE Md5Error

\* a verify step whose digest exception leaves the folder's file loop
VerifyHashAborts ==
  /\ pc = "vd_hash"
  /\ \/ /\ ~Exists(dst, CurVerifyDest)
        /\ frame' = NextFile
        /\ pc' = "vd_file"
        /\ UNCHANGED <<copy_manager, faults, hist>>
     \/ /\ Exists(dst, CurVerifyDest)
        /\ CanFail
        /\ faults' = faults + 1
        /\ hist' = [hist EXCEPT !.hash_failed = @ \cup {<<frame.it, frame.fi>>}]
        /\ frame' = ReturnToItems
        /\ pc' = "vf_item"
        /\ UNCHANGED copy_manager
     \/ /\ Exists(dst, CurVerifyDest)
        /\ copy_manager' =
             IF Md5Digest(CurFile.data) = calculate_md5(dst, CurVerifyDest, TRUE)
             THEN [copy_manager EXCEPT !.verified_files = @ + 1]
             ELSE copy_manager
        /\ frame' = NextFile
        /\ pc' = "vd_file"
        /\ UNCHANGED <<faults, hist>>
  /\ UNCHANGED <<start_btn, stop_btn, ui, dst, clock, sessions, leaving, outcome>>

\* verify_folder, src/main.py:1783-1837
VerifyHash ==
  /\ pc = "vd_hash"
  /\ \/ /\ ~Exists(dst, CurVerifyDest)
        /\ UNCHANGED <<copy_manager, faults, hist>>
     \/ /\ Exists(dst, CurVerifyDest)
        /\ CanFail                         \* calculate_md5 raises (1804 or 1809)
        /\ faults' = faults + 1
        /\ hist' = [hist EXCEPT !.hash_failed = @ \cup {<<frame.it, frame.fi>>}]
        /\ UNCHANGED copy_manager
     \/ /\ Exists(dst, CurVerifyDest)
        /\ LET source_md5 == Md5Digest(CurFile.data)
               dest_md5 == calculate_md5(dst, CurVerifyDest, TRUE)
           IN copy_manager' = IF source_md5 = dest_md5
                              THEN [copy_manager EXCEPT !.verified_files = @ + 1]
                              ELSE copy_manager
        /\ UNCHANGED <<faults, hist>>
  /\ frame' = NextFile
  /\ pc' = "vd_file"
  /\ UNCHANGED <<start_btn, stop_btn, ui, dst, clock, sessions, leaving, outcome>>

\* verify_files, src/main.py:1726-1743
VerifySummary ==
  /\ pc = "vf_summary"
  /\ pc' = "cp_finish"
  /\ UNCHANGED <<start_btn, stop_btn, ui, copy_manager, frame, dst, clock, faults, sessions, leaving, outcome, hist>>

\* copy_process, src/main.py:1487-1491, with copy_complete (1945-1987) and
\* copy_stopped (1989-1996); both close the log file (349-369)
Finish ==
  /\ pc = "cp_finish"
  /\ outcome' = IF copy_manager.copying THEN "Completed" ELSE "Stopped"
  /\ hist' = IF copy_manager.copying THEN hist ELSE SeenCancel
  /\ copy_manager' = [copy_manager EXCEPT !.log_file = FALSE]
  /\ pc' = "cp_finally"
  /\ UNCHANGED <<start_btn, stop_btn, ui, frame, dst, clock, faults, sessions, leaving>>

\* copy_process, src/main.py:1493-1495
HandleException ==
  /\ pc = "cp_except"
  /\ outcome' = "Failed"
  /\ pc' = "cp_finally"
  /\ UNCHANGED <<start_btn, stop_btn, ui, copy_manager, frame, dst, clock, faults, sessions, leaving, hist>>

\* copy_process, src/main.py:1497-1499: the first statement of the finally
\* block enables the Start button; from here on the UI thread may start the
\* next session
Finally ==
  /\ pc = "cp_finally"
  /\ start_btn' = "normal"
  /\ leaving' = leaving + 1
  /\ frame' = NewFrame
  /\ pc' = "idle"
  /\ UNCHANGED <<stop_btn, ui, copy_manager, dst, clock, faults, sessions, outcome, hist>>

\* copy_process, src/main.py:1500: the last statement of the worker disables
\* the Stop button
FinallyStopBtn ==
  /\ leaving > 0
  /\ stop_btn' = "disabled"
  /\ leaving' = leaving - 1
  /\ UNCHANGED <<start_btn, ui, copy_manager, pc, frame, dst, clock, faults, sessions,
                 outcome, hist>>

\* ------------------------------------------------- MD5Verifier.verify_file
\* a comparison with its two branches exchanged
VerifyFileResultSwapped(source_md5, dest_md5) ==
  IF source_md5 = Md5Error \/ dest_md5 = Md5Error
  THEN [match |-> FALSE, detail |-> "failed"]
  ELSE IF source_md5 # dest_md5
       THEN [match |-> TRUE, detail |-> ""]
       ELSE [match |-> FALSE, detail |-> "mismatch"]

\* src/md5_verifier.py:49-59
VerifyFileResult(source_md5, dest_md5) ==
  IF source_md5 = Md5Error \/ dest_md5 = Md5Error
  THEN [match |-> FALSE, detail |-> "failed"]
  ELSE IF source_md5 = dest_md5
       THEN [match |-> TRUE, detail |-> ""]
       ELSE [match |-> FALSE, detail |-> "mismatch"]

\* src/md5_verifier.py:38-59: one call, on any two paths; reading an existing
\* file may fail
verify_file ==
  /\ pc = "idle"
  /\ \E source_path \in MD5Files, dest_path \in MD5Files,
        source_read \in BOOLEAN, dest_read \in BOOLEAN :
       LET broken == Cardinality({r \in {<<source_path, source_read>>, <<dest_path, dest_read>>} :
                                    Exists(dst, r[1]) /\ ~r[2]})
           result == VerifyFileResult(calculate_md5(dst, source_path, source_read),
                                      calculate_md5(dst, dest_path, dest_read))
       IN /\ faults + broken <= MaxFaults
          /\ faults' = faults + broken
          /\ md5_call' = [done |-> TRUE, source_path |-> source_path, dest_path |-> dest_path,
                          source_read |-> Exists(dst, source_path) /\ source_read,
                          dest_read |-> Exists(dst, dest_path) /\ dest_read,
                          match |-> result.match, detail |-> result.detail]
  /\ UNCHANGED <<start_btn, stop_btn, source_items, only_media_var, auto_folder_var,
                 auto_date_prefix_var, project_name_var, horizon, eta_call, destination_path, edits, copy_manager, pc, frame,
                 dst, clock, sessions, leaving, outcome, hist, folders, md5_op>>

\* ------------------------------------ MD5Verifier on folders and manifests
MaxFolderFiles == 2    \* files of a folder
MaxFileNameLen == 2    \* characters of a file name
MaxTextLen == 4        \* characters of a manifest somebody else wrote

\* relative paths of the files of a folder: a letter and the space, which a
\* file name may begin or end with
FileNames == SeqsUpTo({"a", " "}, MaxFileNameLen) \ {<<>>}

\* the files a folder may hold beside its manifest
FolderFiles ==
  {files \in UNION {[S -> Data] : S \in SUBSET FileNames} :
     Cardinality(DOMAIN files) <= MaxFolderFiles}

\* a text file somebody else left as checksums.md5
HandTexts == SeqsUpTo({"a", " ", "#", "\n"}, MaxTextLen)

\* md5_hash.hexdigest(), src/md5_verifier.py:34
HexDigits == <<"0", "1", "2", "3", "4", "5", "6", "7", "8", "9", "a", "b", "c", "d", "e", "f">>
HexDigest(n) ==
  <<HexDigits[((n \div 4096) % 16) + 1], HexDigits[((n \div 256) % 16) + 1],
    HexDigits[((n \div 16) % 16) + 1], HexDigits[(n % 16) + 1]>>

\* os.walk over the folder: its files in any order
WalkOrders(files) ==
  {order \in [1..Cardinality(DOMAIN files) -> DOMAIN files] :
     \A i, j \in DOMAIN order : order[i] = order[j] => i = j}

\* create_checksum_file, src/md5_verifier.py:75-89: the keys of the dict
\* checksums in insertion order; a file whose digest raises is left out
ChecksumKeys(order, readable) == SelectSeq(order, LAMBDA name : name \in readable)

\* f.write(f"{md5_hash}  {rel_path}\n"), src/md5_verifier.py:94-95
ManifestLine(files, rel_path) ==
  HexDigest(Md5Digest(files[rel_path])) \o <<" ", " ">> \o rel_path \o <<"\n">>

RECURSIVE ManifestText(_, _)
ManifestText(files, keys) ==
  IF keys = <<>> THEN <<>>
  ELSE ManifestLine(files, Head(keys)) \o ManifestText(files, Tail(keys))

\* how the save ends: open() raises (-1), a write raises after some lines,
\* or every line is written
SaveOutcomes(keys) == (0 - 1)..Len(keys)

\* create_checksum_file(folder_path), src/md5_verifier.py:61-98: the folder
\* afterwards
CreateChecksumFile(folder, order, readable, saved) ==
  IF saved < 0 THEN folder
  ELSE [folder EXCEPT !.checksum_file =
          TextFile(ManifestText(folder.files, SubSeq(ChecksumKeys(order, readable), 1, saved)))]

\* the I/O failures of one run of create_checksum_file
CreateFaults(folder, order, readable, saved) ==
  Cardinality(DOMAIN folder.files \ readable)
  + (IF saved < Len(ChecksumKeys(order, readable)) THEN 1 ELSE 0)

\* for line in f, src/md5_verifier.py:114: the lines of a text, without
\* their line ends
RECURSIVE SplitLines(_)
SplitLines(text) ==
  IF text = <<>> THEN <<>>
  ELSE IF \E i \in 1..Len(text) : text[i] = "\n"
       THEN LET i == CHOOSE i \in 1..Len(text) :
                       text[i] = "\n" /\ \A j \in 1..(i - 1) : text[j] # "\n"
            IN <<SubSeq(text, 1, i - 1)>> \o SplitLines(SubSeq(text, i + 1, Len(text)))
       ELSE <<text>>

\* line.strip(), src/md5_verifier.py:115
IsSpace(c) == c \in {" ", "\n"}

RECURSIVE StripLeft(_)
StripLeft(s) == IF s # <<>> /\ IsSpace(Head(s)) THEN StripLeft(Tail(s)) ELSE s

RECURSIVE StripRight(_)
StripRight(s) ==
  IF s # <<>> /\ IsSpace(s[Len(s)]) THEN StripRight(SubSeq(s, 1, Len(s) - 1)) ELSE s

StripLine(line) == StripRight(StripLeft(line))

\* line.split('  ', 1), src/md5_verifier.py:117: the parts of a line cut at
\* its first double space
SplitDoubleSpace(line) ==
  IF \E i \in 1..(Len(line) - 1) : line[i] = " " /\ line[i + 1] = " "
  THEN LET i == CHOOSE i \in 1..(Len(line) - 1) :
                  /\ line[i] = " " /\ line[i + 1] = " "
                  /\ \A j \in 1..(i - 1) : ~(line[j] = " " /\ line[j + 1] = " ")
       IN <<SubSeq(line, 1, i - 1), SubSeq(line, i + 2, Len(line))>>
  ELSE <<line>>

\* src/md5_verifier.py:114-120: the lines in order, a later entry of a path
\* replacing an earlier one
RECURSIVE LoadLines(_, _)
LoadLines(lines, checksums) ==
  IF lines = <<>> THEN checksums
  ELSE LET line == StripLine(Head(lines))
           parts == SplitDoubleSpace(line)
       IN LoadLines(Tail(lines),
                    IF line # <<>> /\ Head(line) # "#" /\ Len(parts) = 2
                    THEN (parts[2] :> parts[1]) @@ checksums
                    ELSE checksums)

\* load_checksum_file on a text, src/md5_verifier.py:110-125
LoadChecksums(text) == LoadLines(SplitLines(text), NoChecksums)

Written(op, folder_path, order, readable, saved) ==
  IF saved < 0 THEN op.written
  ELSE [op.written EXCEPT ![folder_path] =
          [saved |-> saved = Len(ChecksumKeys(order, readable)),
           keys |-> IF saved = Len(ChecksumKeys(order, readable)) THEN readable ELSE {}]]

\* src/md5_verifier.py:61-98, on either folder
create_checksum_file ==
  /\ pc = "idle"
  /\ \E folder_path \in FolderPaths :
       \E order \in WalkOrders(folders[folder_path].files),
          readable \in SUBSET DOMAIN folders[folder_path].files :
         \E saved \in SaveOutcomes(ChecksumKeys(order, readable)) :
           LET folder == folders[folder_path]
               broken == CreateFaults(folder, order, readable, saved)
           IN /\ faults + broken <= MaxFaults
              /\ faults' = faults + broken
              /\ folders' = [folders EXCEPT ![folder_path] =
                               CreateChecksumFile(folder, order, readable, saved)]
              /\ md5_op' = [NoOp EXCEPT !.op = "create_checksum_file",
                                        !.folder_path = folder_path,
                                        !.raised = (saved < Len(ChecksumKeys(order, readable))),
                                        !.written = Written(md5_op, folder_path, order, readable, saved)]
  /\ UNCHANGED <<start_btn, stop_btn, source_items, only_media_var, auto_folder_var,
                 auto_date_prefix_var, project_name_var, horizon, eta_call, destination_path, edits, copy_manager, pc, frame,
                 dst, clock, sessions, leaving, outcome, hist, md5_call>>

\* src/md5_verifier.py:100-125, on the manifest of either folder; the open
\* raises when the file is missing or cannot be read
load_checksum_file ==
  /\ pc = "idle"
  /\ \E folder_path \in FolderPaths, opened \in BOOLEAN :
       LET checksum_file == folders[folder_path].checksum_file
           broken == IF checksum_file.exists /\ ~opened THEN 1 ELSE 0
       IN /\ faults + broken <= MaxFaults
          /\ faults' = faults + broken
          /\ md5_op' = [NoOp EXCEPT !.op = "load_checksum_file",
                                    !.folder_path = folder_path,
                                    !.raised = ~(checksum_file.exists /\ opened),
                                    !.checksums = IF checksum_file.exists /\ opened
                                                  THEN LoadChecksums(checksum_file.text)
                                                  ELSE NoChecksums,
                                    !.written = md5_op.written]
  /\ UNCHANGED <<start_btn, stop_btn, source_items, only_media_var, auto_folder_var,
                 auto_date_prefix_var, project_name_var, horizon, eta_call, destination_path, edits, copy_manager, pc, frame,
                 dst, clock, sessions, leaving, outcome, hist, md5_call, folders>>

\* src/md5_verifier.py:164-169: the verdict on one file of the source folder
FolderFileResult(source_files, dest_files, rel_path, source_read, dest_read) ==
  IF ~Exists(dest_files, rel_path)
  THEN [match |-> FALSE, detail |-> "missing"]
  ELSE VerifyFileResult(calculate_md5(source_files, rel_path, source_read),
                        calculate_md5(dest_files, rel_path, dest_read))

\* MD5Verifier.verify_folder(source_folder, dest_folder, create_checksums),
\* src/md5_verifier.py:127-171; create_checksums is True unless the caller
\* says otherwise
verify_folder ==
  /\ pc = "idle"
  /\ LET source == folders.source_folder
         dest == folders.dest_folder
         compared == DOMAIN source.files \cap DOMAIN dest.files
         orders == WalkOrders(source.files)
     IN \E create_checksums \in BOOLEAN :
          \E order \in (IF create_checksums THEN orders ELSE {CHOOSE o \in orders : TRUE}),
             readable \in (IF create_checksums THEN SUBSET DOMAIN source.files
                           ELSE {DOMAIN source.files}),
             source_read \in SUBSET compared,
             dest_read \in SUBSET compared :
            \E saved \in (IF create_checksums THEN SaveOutcomes(ChecksumKeys(order, readable))
                          ELSE {Len(order)}) :
              LET broken == (IF create_checksums
                             THEN CreateFaults(source, order, readable, saved) ELSE 0)
                            + Cardinality(compared \ source_read)
                            + Cardinality(compared \ dest_read)
              IN /\ faults + broken <= MaxFaults
                 /\ faults' = faults + broken
                 /\ folders' = IF create_checksums
                               THEN [folders EXCEPT !.source_folder =
                                       CreateChecksumFile(source, order, readable, saved)]
                               ELSE folders
                 /\ md5_op' = [NoOp EXCEPT
                      !.op = "verify_folder",
                      !.create_checksums = create_checksums,
                      !.results = [rel_path \in DOMAIN source.files |->
                                     FolderFileResult(source.files, dest.files, rel_path,
                                                      rel_path \in source_read,
                                                      rel_path \in dest_read)],
                      !.written = IF create_checksums
                                  THEN Written(md5_op, "source_folder", order, readable, saved)
                                  ELSE md5_op.written]
  /\ UNCHANGED <<start_btn, stop_btn, source_items, only_media_var, auto_folder_var,
                 auto_date_prefix_var, project_name_var, horizon, eta_call, destination_path, edits, copy_manager, pc, frame,
                 dst, clock, sessions, leaving, outcome, hist, md5_call>>

\* Two folders of every content within the bounds and no manifest, the
\* destination holding at most one file, of a name the source has too; or
\* two empty folders and a manifest somebody else wrote.
InitFolder ==
  /\ InitSession(<<>>, FALSE, TRUE, TRUE, <<>>, <<>>, 0, 0)
  /\ edits = 0
  /\ md5_op = NoOp
  /\ \/ \E source_files \in FolderFiles, dest_files \in FolderFiles :
          /\ Cardinality(DOMAIN dest_files) <= 1
          /\ DOMAIN dest_files \subseteq DOMAIN source_files
          /\ folders = [source_folder |-> [files |-> source_files, checksum_file |-> NoFile],
                        dest_folder |-> [files |-> dest_files, checksum_file |-> NoFile]]
     \/ \E text \in HandTexts :
          folders = [NoFolders EXCEPT !.source_folder.checksum_file = TextFile(text)]

\* ------------------------------------------------ the progress displays
\* The status labels are no part of the session's state; update_progress
\* and update_verify_progress are studied on their own, as functions of the
\* counters and of the clock.  Sizes in MiB, times in ms.
MaxCount == 3          \* the largest counter value
MaxTime == 2000        \* the latest clock reading, ms

CounterValues == (0 - 1)..MaxCount
ClockValues == {t \in 0..MaxTime : t % 1000 = 0}

\* an elapsed time that follows the clock backward
ElapsedTimeUnclamped(now, start_time) ==
  IF start_time > 0 THEN now - start_time ELSE 0

\* src/main.py:1853-1859 and 1908-1914: the time since the start, 0 when no
\* start is recorded or the clock went back
ElapsedTime(now, start_time) ==
  IF start_time > 0
  THEN IF now - start_time < 0 THEN 0 ELSE now - start_time
  ELSE 0

\* DITCopyTool.format_time, src/main.py:1118-1131: the whole seconds the
\* label shows, "00:00" for a time that is not positive
FormatTime(ms) == IF ms <= 0 THEN 0 ELSE ms \div 1000

\* CopyManager.format_time(int(seconds)), src/main.py:294-310: the whole
\* seconds the log line shows, 0 for a negative time
ManagerFormatTime(ms) == IF ms < 0 THEN 0 ELSE ms \div 1000

\* verify_files, src/main.py:1728-1730: md5_calc_speed is computed anew only
\* when the time is positive
Md5CalcSpeed(md5_calc_speed, md5_calc_size, elapsed_time) ==
  IF elapsed_time > 0 THEN Quotient(md5_calc_size, elapsed_time) ELSE md5_calc_speed

\* copy_complete, src/main.py:1968-1973
TotalTime(now, copy_start_time) ==
  IF copy_start_time > 0 THEN now - copy_start_time ELSE 0

AvgSpeed(copied_size, total_time) ==
  IF total_time > 0 /\ copied_size > 0 THEN Quotient(copied_size, total_time)
  ELSE Quotient(0, 1)

\* src/main.py:1862-1866
SpeedMbS(copied_size, elapsed_time) ==
  IF elapsed_time > 0 /\ copied_size >= 0
  THEN Quotient(IF copied_size < 0 THEN 0 ELSE copied_size, elapsed_time)
  ELSE Quotient(0, 1)

\* src/main.py:1917-1919
VerifySpeed(verified_files, elapsed_time) ==
  IF elapsed_time > 0 THEN Quotient(verified_files, elapsed_time) ELSE Quotient(0, 1)

\* an estimate computed whenever the speed is positive
EtaSecondsUnguarded(total, done, speed) ==
  IF speed.num > 0
  THEN ((total - done) * speed.den) \div speed.num
  ELSE 0

\* src/main.py:1878-1881 and 1922-1925: remaining / speed, when the speed is
\* positive and something remains
EtaSeconds(total, done, speed) ==
  IF speed.num > 0 /\ total > done
  THEN ((total - done) * speed.den) \div speed.num
  ELSE 0

\* src/main.py:1839-1895, for total_files > 0
update_progress ==
  /\ pc = "idle"
  /\ \E total_size \in CounterValues, copied_size \in CounterValues,
        copy_start_time \in ClockValues, now \in ClockValues :
       LET elapsed_time == ElapsedTime(now, copy_start_time)
           speed_mb_s == SpeedMbS(copied_size, elapsed_time)
       IN eta_call' = [op |-> "update_progress", total |-> total_size, done |-> copied_size,
                       start_time |-> copy_start_time, now |-> now,
                       elapsed_time |-> elapsed_time, speed |-> speed_mb_s,
                       eta_seconds |-> EtaSeconds(total_size, copied_size, speed_mb_s),
                       shown_time |-> FormatTime(elapsed_time)]
  /\ UNCHANGED <<start_btn, stop_btn, source_items, only_media_var, auto_folder_var,
                 auto_date_prefix_var, project_name_var, destination_path, edits, horizon,
                 md5_call, folders, md5_op, copy_manager, pc, frame, dst, clock, faults,
                 sessions, leaving, outcome, hist>>

\* src/main.py:1897-1937, for total_files > 0
update_verify_progress ==
  /\ pc = "idle"
  /\ \E total_files \in CounterValues \ {0 - 1, 0}, verified_files \in CounterValues,
        verify_start_time \in ClockValues, now \in ClockValues :
       LET elapsed_time == ElapsedTime(now, verify_start_time)
           verify_speed == VerifySpeed(verified_files, elapsed_time)
       IN eta_call' = [op |-> "update_verify_progress", total |-> total_files,
                       done |-> verified_files,
                       start_time |-> verify_start_time, now |-> now,
                       elapsed_time |-> elapsed_time, speed |-> verify_speed,
                       eta_seconds |-> EtaSeconds(total_files, verified_files, verify_speed),
                       shown_time |-> FormatTime(elapsed_time)]
  /\ UNCHANGED <<start_btn, stop_btn, source_items, only_media_var, auto_folder_var,
                 auto_date_prefix_var, project_name_var, destination_path, edits, horizon,
                 md5_call, folders, md5_op, copy_manager, pc, frame, dst, clock, faults,
                 sessions, leaving, outcome, hist>>

\* verify_files, src/main.py:1726-1740: the summary of the verify phase; the
\* speed it starts from is 0 or what the last file's progress left
verify_files_summary ==
  /\ pc = "idle"
  /\ \E md5_calc_size \in CounterValues \ {0 - 1}, md5_start_time \in ClockValues,
        now \in ClockValues, md5_calc_speed \in {Quotient(0, 1), Quotient(1, 1000)} :
       LET elapsed_time == now - md5_start_time
       IN eta_call' = [op |-> "verify_files", total |-> md5_calc_size, done |-> md5_calc_size,
                       start_time |-> md5_start_time, now |-> now,
                       elapsed_time |-> elapsed_time,
                       speed |-> Md5CalcSpeed(md5_calc_speed, md5_calc_size, elapsed_time),
                       eta_seconds |-> 0,
                       shown_time |-> ManagerFormatTime(elapsed_time)]
  /\ UNCHANGED <<start_btn, stop_btn, source_items, only_media_var, auto_folder_var,
                 auto_date_prefix_var, project_name_var, destination_path, edits, horizon,
                 md5_call, folders, md5_op, copy_manager, pc, frame, dst, clock, faults,
                 sessions, leaving, outcome, hist>>

\* copy_complete, src/main.py:1966-1987, and the total time shown by
\* celebrate_completion_with_stats (2106)
copy_complete ==
  /\ pc = "idle"
  /\ \E copied_size \in CounterValues \ {0 - 1}, copy_start_time \in ClockValues,
        now \in ClockValues :
       LET total_time == TotalTime(now, copy_start_time)
       IN eta_call' = [op |-> "copy_complete", total |-> copied_size, done |-> copied_size,
                       start_time |-> copy_start_time, now |-> now,
                       elapsed_time |-> total_time,
                       speed |-> AvgSpeed(copied_size, total_time),
                       eta_seconds |-> 0,
                       shown_time |-> FormatTime(total_time)]
  /\ UNCHANGED <<start_btn, stop_btn, source_items, only_media_var, auto_folder_var,
                 auto_date_prefix_var, project_name_var, destination_path, edits, horizon,
                 md5_call, folders, md5_op, copy_manager, pc, frame, dst, clock, faults,
                 sessions, leaving, outcome, hist>>

InitEta ==
  /\ InitSession(<<>>, FALSE, TRUE, TRUE, <<>>, <<>>, 0, 0)
  /\ edits = 0
  /\ folders = NoFolders
  /\ md5_op = NoOp

NextEta ==
  \/ update_progress
  \/ update_verify_progress
  \/ verify_files_summary
  \/ copy_complete

NextFolder ==
  \/ create_checksum_file
  \/ load_checksum_file
  \/ verify_folder

NextMD5 == verify_file

Next ==
  \/ start_copy
  \/ stop_copy
  \/ ResetSession
  \/ MakeDestination
  \/ CountFiles
  \/ CopyItemCheckpoint
  \/ CopyDirCheckpoint
  \/ CopyFileCheckpoint
  \/ OpenFiles
  \/ ChunkCheckpoint
  \/ CopyChunk
  \/ ProgressPush
  \/ FallbackCopy
  \/ FileCopied
  \/ VerifyGate
  \/ VerifyBegin
  \/ VerifyItemCheckpoint
  \/ VerifyDirCheckpoint
  \/ VerifyFileCheckpoint
  \/ VerifyHash
  \/ VerifySummary
  \/ Finish
  \/ HandleException
  \/ Finally
  \/ FinallyStopBtn

\* the session together with what the user does beside Start and Stop
NextUI ==
  \/ Next
  \/ clear_all
  \/ rename_selected_folder
  \/ set_project_name
  \/ set_auto_date_prefix

Spec == Init /\ [][Next]_vars
SpecUI == InitUI /\ [][NextUI]_vars
SpecNames == InitNames /\ [][Next]_vars
SpecCopy == InitCopy /\ [][Next]_vars
SpecMD5 == InitMD5 /\ [][NextMD5]_vars
SpecFolder == InitFolder /\ [][NextFolder]_vars
SpecEta == InitEta /\ [][NextEta]_vars

\* ------------------------------------------------------------ properties
\* the files of the source tree the session has to copy, and their sizes
SelectedSize ==
  SumOf([p \in Selected(source_items) |-> Size(FileAt(source_items, p).data)],
        Selected(source_items))

\* the positions of the worker inside the verify loops
Verifying == {"vf_item", "vd_dir", "vd_file", "vd_hash"}

\* C1: a session with no stop request, no I/O failure, the only-media filter
\* off and a destination that is empty at start ends in Completed with
\* copied_files = total_files, copied_size = total_size = the sum of the
\* source sizes, and verified_files = total_files.
C1_CompleteCopyIsVerified ==
  (/\ outcome # "none"
   /\ ~hist.stop_requested
   /\ faults = 0
   /\ ~only_media_var
   /\ hist.empty_at_start)
  => /\ outcome = "Completed"
     /\ copy_manager.copied_files = copy_manager.total_files
     /\ copy_manager.copied_size = copy_manager.total_size
     /\ copy_manager.total_size = SelectedSize
     /\ copy_manager.verified_files = copy_manager.total_files

C3_NothingStartsAfterCancelSeen ==
  [][/\ hist.cancel_seen => (pc' \notin {"cw_open", "vd_hash"} \/ pc' = pc)
     /\ (hist'.cancel_seen /\ outcome' # "none") => outcome' = "Stopped"]_vars

C3_StoppedMidway ==
  /\ hist.cancel_seen
  /\ outcome = "Stopped"
  /\ copy_manager.copied_files >= 1
  /\ copy_manager.copied_files < copy_manager.total_files

\* C4: from a stop request made after start_copy until the session's thread
\* has ended, copy_manager.copying is False.
C4_CancelFlagStaysSet ==
  (hist.stop_requested /\ pc # "idle") => ~copy_manager.copying

\* C5: when the chunk loop of a file has ended in a run with no I/O failure
\* and without the worker having read copying = False, the destination file
\* holds the content of the source file and the two digests are equal.
C5_ChunkedCopyIsFaithful ==
  (pc = "cf_post" /\ faults = 0 /\ ~hist.cancel_seen)
  => /\ Exists(dst, CurDest)
     /\ dst[CurDest] = CurFile.data
     /\ calculate_md5(dst, CurDest, TRUE) = Md5Digest(CurFile.data)

C5_LargestTierCopied ==
  /\ pc = "cf_post"
  /\ faults = 0
  /\ ~hist.stop_requested
  /\ ChunkSizeFor(frame.file_size) = 16
  /\ frame.copied = Size(CurFile.data)
  /\ dst[CurDest] = CurFile.data

\* C6: after the step that creates the destination folder no step of the
\* session changes copy_manager.date_folder, and throughout the verify loops
\* the destination root is the one the copy used, built from the stored
\* date_folder.
C6_DateFolderFixed ==
  [][/\ pc \notin {"cp_begin", "cp_dest"}
          => copy_manager'.date_folder = copy_manager.date_folder
     /\ pc' \in Verifying
          => /\ frame'.v_final_dest = frame'.final_dest
             /\ auto_folder_var' => frame'.v_final_dest = JoinDest(copy_manager'.date_folder)]_vars

C6_VerifiedAfterClockMoved ==
  /\ pc = "vd_hash"
  /\ auto_folder_var
  /\ auto_date_prefix_var
  /\ ~copy_manager.date_folder.none
  /\ DateStr(clock) # copy_manager.date_folder.stamp
  /\ CurVerifyDest = CurDest

\* C7: a failure of the chunked copy leads to the whole-file copy; when that
\* fails too the counters stay as they are and the file loop goes to the
\* next file; and when that was the run's only malfunction, the copy loop
\* ends with every other file copied once and counted.
C7_FallbackThenSkip ==
  [][/\ (pc \in {"cw_open", "cw_chunk"} /\ faults' # faults) => pc' = "cw_fallback"
     /\ (pc = "cw_fallback" /\ hist'.copy_failed # hist.copy_failed)
          => /\ copy_manager' = copy_manager
             /\ pc' = "cf_file"
             /\ frame'.it = frame.it
             /\ frame'.fi = frame.fi + 1
     /\ (pc' = "cp_gate" /\ hist'.copy_failed # {} /\ ~hist'.cancel_seen /\ faults' <= 1)
          => /\ \A p \in Selected(source_items) \ hist'.copy_failed : hist'.started[p] = 1
             /\ copy_manager'.copied_files =
                  Cardinality(Selected(source_items) \ hist'.copy_failed)]_vars

C7_NextFileCopiedAfterFailure ==
  /\ <<1, 1>> \in hist.copy_failed
  /\ outcome = "Completed"
  /\ copy_manager.total_files = 2
  /\ copy_manager.copied_files = 1

\* C8: a file whose destination size differs from its source size after the
\* copy is counted once in copied_files and with its source size in
\* copied_size, the loop goes to the next file, and no file is copied twice.
C8_MismatchCountedOnce ==
  [][/\ (/\ pc = "cf_post"
         /\ pc' # pc
         /\ faults' = faults
         /\ Exists(dst, CurDest)
         /\ Size(dst[CurDest]) # Size(CurFile.data))
          => /\ copy_manager'.copied_files = copy_manager.copied_files + 1
             /\ copy_manager'.copied_size = copy_manager.copied_size + Size(CurFile.data)
             /\ pc' = "cf_file"
             /\ frame'.it = frame.it
             /\ frame'.fi = frame.fi + 1
     /\ \A p \in AllFiles(source_items) : hist'.started[p] <= 1]_vars

C8_ShortFileCounted ==
  /\ pc = "cf_file"
  /\ frame.it = 1
  /\ frame.fi = 2
  /\ faults = 0
  /\ Exists(dst, DstPath(frame.final_dest, CurItem.custom_name, 1))
  /\ Size(dst[DstPath(frame.final_dest, CurItem.custom_name, 1)]) # Size(CurItem.files[1].data)
  /\ hist.started[<<1, 1>>] = 1
  /\ copy_manager.copied_files = 1
  /\ copy_manager.copied_size = Size(CurItem.files[1].data)

\* C9: a digest computation that raises leaves verified_files as it is and
\* the file loop goes to the next file; when the verify loops end without a
\* cancellation every file of the source tree has been visited and none of
\* the failed ones is in verified_files.
C9_HashFailureSkipsFile ==
  [][/\ (pc = "vd_hash" /\ hist'.hash_failed # hist.hash_failed)
          => /\ copy_manager'.verified_files = copy_manager.verified_files
             /\ pc' = "vd_file"
             /\ frame'.it = frame.it
             /\ frame'.fi = frame.fi + 1
     /\ (pc' = "vf_summary" /\ ~hist'.cancel_seen)
          => /\ copy_manager'.md5_verified_files = NumFiles(source_items)
             /\ copy_manager'.verified_files
                  <= NumFiles(source_items) - Cardinality(hist'.hash_failed)]_vars

C9_NextFileVerifiedAfterFailure ==
  /\ <<1, 1>> \in hist.hash_failed
  /\ outcome = "Completed"
  /\ copy_manager.md5_verified_files = 2
  /\ copy_manager.verified_files = 1

C11_VerifyFolderLeavesFilesAlone ==
  [][(verify_folder /\ md5_op'.create_checksums) => folders' = folders]_vars

\* C16: load_checksum_file applied to the manifest that create_checksum_file
\* wrote for a folder returns exactly the mapping relative path -> digest of
\* every readable file of the folder.
C16_LoadReturnsWhatCreateWrote ==
  (/\ md5_op.op = "load_checksum_file"
   /\ ~md5_op.raised
   /\ md5_op.written[md5_op.folder_path].saved)
  => md5_op.checksums =
       [rel_path \in md5_op.written[md5_op.folder_path].keys |->
          HexDigest(Md5Digest(folders[md5_op.folder_path].files[rel_path]))]

\* C12: when the destination root folder cannot be created the session ends
\* in Failed, and no file is copied and no file is verified in it:
\* copied_files and verified_files stay 0 and nothing is written.
C12_RootFailureFailsSession ==
  hist.root_failed
  => /\ pc \in {"cp_except", "cp_finally", "idle"}
     /\ pc = "idle" => outcome = "Failed"
     /\ outcome \in {"none", "Failed"}
     /\ copy_manager.copied_files = 0
     /\ copy_manager.verified_files = 0
     /\ \A p \in DOMAIN hist.started : hist.started[p] = 0

C12_FailedOnRoot ==
  /\ hist.root_failed
  /\ pc = "idle"
  /\ outcome = "Failed"
  /\ source_items # <<>>
  /\ copy_manager.total_files = 0

C14_RootNameNonEmpty ==
  (~copy_manager.date_folder.none /\ copy_manager.date_folder.stamp < 0)
  => copy_manager.date_folder.name # <<>>

\* the workers inside copy_process: the one the model follows, and those
\* that still have the last statement of the finally block to run
ActiveWorkers == (IF pc # "idle" THEN 1 ELSE 0) + leaving

\* C19: at most one worker running copy_process is active at any time.
C19_OneWorker == ActiveWorkers <= 1

\* the counters of a session
Counters ==
  {"total_files", "copied_files", "verified_files", "total_size", "copied_size",
   "total_md5_files", "md5_verified_files", "md5_calc_size"}

\* C20: within a session no counter decreases from one state to the next;
\* a counter goes back only in the start step of the session (the worker's
\* first step, which zeroes the counters).
C20_CountersNeverDecrease ==
  [][(pc \notin {"idle", "cp_begin"})
     => \A c \in Counters : copy_manager'[c] >= copy_manager[c]]_vars

\* C18: the chunk size of a file depends only on its size: 16 MiB above
\* 500 MiB, 8 MiB above 100 MiB, 4 MiB above 10 MiB, 1 MiB otherwise, the
\* sizes 500, 100 and 10 MiB themselves falling in the lower tier.  Every
\* turn of the chunk loop that copies something copies one chunk of that
\* size, or what is left of the file.
C18_ChunkSizeByTier ==
  [][(pc = "cw_chunk" /\ pc' \in {"cw_loop", "cw_push"})
     => LET size == frame.file_size
            chunk_size == CASE size > 500 -> 16
                            [] size > 100 /\ size <= 500 -> 8
                            [] size > 10 /\ size <= 100 -> 4
                            [] size <= 10 -> 1
        IN frame'.copied - frame.copied = Min(chunk_size, size - frame.copied)]_vars

C18_BoundaryFileChunked ==
  /\ pc = "cw_loop"
  /\ frame.file_size = 500
  /\ frame.copied = 16
  /\ Len(dst[CurDest]) = 16

\* C15: the root folder name of a session is built from the sanitized
\* project name: the name with every character other than alphanumerics,
\* hyphen, underscore and space removed, then trimmed, then with every space
\* replaced by an underscore; with the date prefix on the name follows the
\* date stamp (the stamp alone when the sanitized name is empty), with the
\* prefix off the root name is the sanitized name.
C15_RootNameSanitized ==
  ~copy_manager.date_folder.none
  => LET name == copy_manager.date_folder.name
         stamp == copy_manager.date_folder.stamp
     IN /\ name = ReplaceSpaces(Strip(Filter(project_name_var, IsSafeChar)))
        /\ \A i \in 1..Len(name) : name[i] \in {"a", "1", "-", "_"}
        /\ name # <<>> => (name[1] # "_" /\ name[Len(name)] # "_")
        /\ auto_date_prefix_var <=> stamp >= 0
        /\ stamp >= 0 => \E t \in Instants : stamp = DateStr(t)

C15_TrimmedAfterRemoval ==
  /\ project_name_var = <<"!", " ", "a">>
  /\ copy_manager.date_folder = Folder(0, <<"a">>)
  /\ outcome = "Completed"

\* C17: the copy ETA and the verify ETA are never negative, and each is 0
\* whenever the speed is 0 or nothing remains (total <= done), for all
\* counter values and all elapsed times.
C17_EtaNeverNegative ==
  eta_call.op # "none"
  => /\ eta_call.eta_seconds >= 0
     /\ (eta_call.speed.num = 0 \/ eta_call.total <= eta_call.done)
          => eta_call.eta_seconds = 0

C17_NothingRemainsAtSpeed ==
  /\ eta_call.op = "update_progress"
  /\ eta_call.done > eta_call.total
  /\ eta_call.speed.num > 0
  /\ eta_call.eta_seconds = 0

\* C21: verify_files is entered only from the gate that follows the copy
\* loop, which is reached only when the loop over the source items has
\* ended (every item done, or the flag found set), and only when the gate
\* reads the cancel flag clear and copied_files > 0; in every other case the
\* worker goes from the gate straight to the end of the session, which is
\* Stopped or Completed, with verified_files = 0.
C21_VerifyOnlyAfterCopyLoop ==
  [][/\ (pc' = "cp_gate" /\ pc # "cp_gate")
          => /\ pc = "cp_item"
             /\ frame.it > Len(source_items) \/ ~copy_manager.copying
     /\ (pc' = "vf_begin" /\ pc # "vf_begin")
          => /\ pc = "cp_gate"
             /\ copy_manager.copying
             /\ copy_manager.copied_files > 0
     /\ (pc = "cp_gate" /\ pc' # "cp_gate" /\ pc' # "vf_begin")
          => /\ pc' = "cp_finish"
             /\ copy_manager'.verified_files = 0
     /\ pc = "cp_finish"
          => /\ copy_manager'.verified_files = copy_manager.verified_files
             /\ pc' # pc => (pc' = "cp_finally" /\ outcome' \in {"Stopped", "Completed"})]_vars

C21_CompletedWithoutVerify ==
  /\ outcome = "Completed"
  /\ copy_manager.copying
  /\ copy_manager.total_files > 0
  /\ copy_manager.copied_files = 0
  /\ copy_manager.verified_files = 0
  /\ copy_manager.md5_verified_files = 0

\* C22: while a session runs, the list of source items, each item's
\* custom_name and the destination root stay as they are from one state to
\* the next, and a step that is not the worker's leaves every counter as it
\* is: the UI thread changes nothing of the session but the cancel flag.
C22_SessionStateImmutable ==
  [][(pc # "idle" /\ pc' # "idle")
     => /\ source_items' = source_items
        /\ destination_path' = destination_path
        /\ (pc' = pc /\ frame' = frame)
             => \A c \in Counters : copy_manager'[c] = copy_manager[c]]_vars

\* the verify phase looks for a copied file under another folder name than
\* the one the copy phase wrote it to
C22_VerifiedUnderOtherName ==
  /\ pc = "vd_hash"
  /\ CurVerifyDest # DstPath(frame.v_final_dest, 1, frame.fi)
  /\ Exists(dst, DstPath(frame.v_final_dest, 1, frame.fi))
  /\ ~Exists(dst, CurVerifyDest)

\* C23: the step that gives a session its outcome (Completed, Stopped or
\* Failed) leaves the session log file closed (log_file is None), and the
\* start step of a session never opens a log file while the handle of an
\* earlier one is still open.
C23_LogClosedAtEnd ==
  [][/\ (outcome = "none" /\ outcome' # "none") => ~copy_manager'.log_file
     /\ (pc = "cp_begin" /\ pc' # pc /\ ~hist'.log_failed) => ~copy_manager.log_file]_vars

\* the counters of the copy phase and those of the verify phase
CopyCounters == {"total_files", "copied_files", "verified_files", "total_size", "copied_size"}
Md5Counters == {"total_md5_files", "md5_verified_files", "md5_calc_size"}

CopyingFile == {"cw_open", "cw_loop", "cw_chunk", "cw_push", "cw_fallback"}

\* the length of the file at path p, 0 when there is none
LenAt(fs, p) == IF Exists(fs, p) THEN Len(fs[p]) ELSE 0

\* C25: once the cancel flag is set while a file is being copied, the
\* checkpoint of the chunk loop leaves the loop, the chunk in flight adds at
\* most one chunk to the destination file, a whole-file copy that follows a
\* failed read or write writes no more than that, and no other step makes
\* the destination file longer.
C25_OneChunkAfterCancel ==
  [][(~copy_manager.copying /\ pc \in CopyingFile /\ pc' # pc)
     => LET chunk_size == ChunkSizeFor(frame.file_size)
        IN /\ pc = "cw_loop" => pc' = "cf_post"
           /\ pc = "cw_chunk"
                => LenAt(dst', CurDest) - LenAt(dst, CurDest) <= chunk_size
           /\ (pc = "cw_fallback" /\ pc' = "cf_post") => LenAt(dst', CurDest) <= chunk_size
           /\ pc \in {"cw_open", "cw_loop", "cw_push"}
                => LenAt(dst', CurDest) <= LenAt(dst, CurDest)]_vars

\* the two progress displays, which clamp the elapsed time they derive
ProgressOps == {"update_progress", "update_verify_progress"}

\* C26 (as the code has it): in the copy progress and the verify progress
\* the elapsed time derived as now - start is clamped to 0 when the clock
\* has moved backward; in the verify summary and the final session summary
\* it is not clamped, but a time that is not positive is kept out of the
\* speed and is shown as 0.  So no negative duration reaches a speed (a
\* speed is 0, or a quotient by a positive time), an ETA or a reported
\* total time.
C26_NoNegativeDurationShown ==
  eta_call.op # "none"
  => /\ eta_call.op \in ProgressOps => eta_call.elapsed_time >= 0
     /\ eta_call.speed.den > 0
     /\ eta_call.eta_seconds >= 0
     /\ eta_call.shown_time >= 0
     /\ eta_call.now < eta_call.start_time
          => /\ eta_call.shown_time = 0
             /\ eta_call.eta_seconds = 0
             /\ eta_call.op \in ProgressOps
                  => (eta_call.elapsed_time = 0 /\ eta_call.speed.num = 0)
             /\ eta_call.op = "copy_complete" => eta_call.speed.num = 0

C26_SummaryAfterClockWentBack ==
  /\ eta_call.op = "copy_complete"
  /\ eta_call.now < eta_call.start_time
  /\ eta_call.done > 0
  /\ eta_call.elapsed_time < 0
  /\ eta_call.shown_time = 0
  /\ eta_call.speed.num = 0

\* C26 (as stated): every elapsed duration derived as now - start is clamped
\* to 0 when the clock has moved backward, in the copy progress, the verify
\* progress, the verify summary and the final session summary.
C26_EveryDurationClamped ==
  eta_call.op # "none" => eta_call.elapsed_time >= 0

\* C27: inside the chunk loop of one file, update_progress is called only
\* when at least 200 ms have passed since the loop last looked at the
\* progress, so two consecutive calls are at least 200 ms apart; and it is
\* called only when total_size > 0 and the provisional value (the committed
\* copied_size plus what is copied of this file, capped at total_size),
\* which is what the call is given, differs from the committed copied_size
\* by more than 1% of total_size.  A turn of the loop that does not call it
\* leaves the counters alone.
C27_PushesThrottled ==
  [][/\ (pc = "cw_chunk" /\ pc' = "cw_push")
          => /\ clock' - frame.last_update_time >= 200
             /\ hist.last_push >= 0 => clock' - hist.last_push >= 200
             /\ copy_manager.total_size > 0
             /\ copy_manager'.copied_size =
                  Min(copy_manager.copied_size + frame'.copied, copy_manager.total_size)
             /\ 100 * Abs(copy_manager'.copied_size - copy_manager.copied_size)
                  > copy_manager.total_size
     /\ (pc = "cw_chunk" /\ pc' \notin {"cw_chunk", "cw_push"})
          => copy_manager' = copy_manager]_vars

\* the second call of update_progress in the chunk loop of one file
C27_SecondPush ==
  /\ pc = "cw_push"
  /\ hist.last_push = 200
  /\ frame.current_time = 1000
  /\ frame.copied = 2
  /\ copy_manager.copied_size = 2
  /\ frame.original_copied_size = 0

\* C28 (as the code has it): copied_files is incremented, and the file's
\* full size added to copied_size, in the post-copy step of every file whose
\* call of copy_file_with_progress returned and whose size checks did not
\* raise: a file whose chunk loop was cut short by the cancel flag is
\* counted like one copied to the end.  A file whose whole-file copy raised
\* is not counted, and no other step of the copy phase counts a file.
C28_EveryReturnedCopyCounted ==
  [][/\ (pc = "cf_post" /\ pc' # pc /\ faults' = faults)
          => /\ copy_manager'.copied_files = copy_manager.copied_files + 1
             /\ copy_manager'.copied_size = copy_manager.copied_size + Size(CurFile.data)
     /\ (pc = "cw_fallback" /\ pc' = "cf_file") => copy_manager' = copy_manager
     /\ (pc \notin {"cf_post", "cp_begin"} /\ pc' \notin {"cw_push", "cw_loop"})
          => /\ copy_manager'.copied_files = copy_manager.copied_files
             /\ copy_manager'.copied_size = copy_manager.copied_size]_vars

\* a file cut short by the cancel flag, counted with its full size
C28_CutShortCounted ==
  /\ outcome = "Stopped"
  /\ faults = 0
  /\ copy_manager.copied_files = 1
  /\ copy_manager.copied_size = Size(source_items[1].files[1].data)
  /\ \E p \in DOMAIN dst : Len(dst[p]) < Size(source_items[1].files[1].data)

\* C28 (as stated): copied_files is incremented, and the file's size added
\* to copied_size, only for a file whose copy ran to the end of the source
\* and whose destination file exists afterwards.
C28_OnlyWholeCopiesCounted ==
  [][(pc = "cf_post" /\ copy_manager'.copied_files # copy_manager.copied_files)
     => /\ Exists(dst, CurDest)
        /\ Len(dst[CurDest]) = Size(CurFile.data)]_vars

VerifyDestOf(p) == DstPath(frame.v_final_dest, source_items[p[1]].custom_name, p[2])

\* the copied files whose destination is missing or differs in digest
Mismatched ==
  {p \in Selected(source_items) :
     \/ ~Exists(dst, VerifyDestOf(p))
     \/ calculate_md5(dst, VerifyDestOf(p), TRUE) # Md5Digest(FileAt(source_items, p).data)}

\* C30: in a session that ends in Completed with no I/O failure, the number
\* of verification failures the verify phase reports, total_md5_files -
\* verified_files, is the number of copied files whose destination is
\* missing or differs in digest, with the only-media filter on or off.
C30_ReportedFailuresAreMismatches ==
  (pc = "cp_finally" /\ outcome = "Completed" /\ faults = 0)
  => copy_manager.total_md5_files - copy_manager.verified_files = Cardinality(Mismatched)

====
